---- MODULE Spec2Model ----
(***************************************************************************)
(* Model of src/src/structs.rs: the raw -> parsed conversions of           *)
(* load-shedding records.                                                  *)
(*                                                                         *)
(*   From<RawShedding> for Shedding                      (single event)    *)
(*   From<RawMonthlyShedding> for MonthlyShedding        (monthly event)   *)
(*   From<RawManuallyInputSchedule> for ManuallyInputSchedule (aggregate)  *)
(*                                                                         *)
(* Strings are sequences of one-character strings, so that format! is      *)
(* concatenation and the two chrono parsers are computed character by      *)
(* character.  A panic (unwrap / expect) is a result tagged "Panic".       *)
(***************************************************************************)
EXTENDS Integers, Sequences, FiniteSets, TLC

(***************************************************************************)
(* Bounds of the model.                                                    *)
(***************************************************************************)
\* stage: u8, drawn from 1..MaxStage
MaxStage == 2
\* date_of_month: u8, drawn from 1..MaxDateOfMonth
MaxDateOfMonth == 2
\* longest raw `changes` vector
MaxChanges == 2
\* longest raw `historical_changes` vector
MaxHistorical == 1

(***************************************************************************)
(* Characters and numbers.                                                 *)
(***************************************************************************)
Digits == {"0", "1", "2", "3", "4", "5", "6", "7", "8", "9"}

DigitSeq == <<"0", "1", "2", "3", "4", "5", "6", "7", "8", "9">>

DigitValue == [c \in Digits |-> CHOOSE n \in 0..9 : DigitSeq[n + 1] = c]

DigitVal(c) == DigitValue[c]

\* a number 0..99 written with two digits, as "{:02}" would
D2(n) == <<DigitSeq[(n \div 10) + 1], DigitSeq[(n % 10) + 1]>>

\* a number 0..9 written with one digit
D1(n) == <<DigitSeq[n + 1]>>

AllDigits(s) == \A i \in 1..Len(s) : s[i] \in Digits

RECURSIVE NumVal(_)
NumVal(s) == IF s = <<>> THEN 0
             ELSE 10 * NumVal(SubSeq(s, 1, Len(s) - 1)) + DigitVal(s[Len(s)])

\* chrono scan::number(s, min, max): between min and max leading digits
ScanNumber(s, min, max) ==
    LET n == IF Len(s) >= 1 /\ s[1] \in Digits
             THEN IF max >= 2 /\ Len(s) >= 2 /\ s[2] \in Digits THEN 2 ELSE 1
             ELSE 0
    IN IF n < min
       THEN [ok |-> FALSE, val |-> 0, rest |-> s]
       ELSE [ok |-> TRUE, val |-> NumVal(SubSeq(s, 1, n)),
             rest |-> SubSeq(s, n + 1, Len(s))]

(***************************************************************************)
(* NaiveTime::parse_from_str(s, "%H:%M")                                   *)
(***************************************************************************)
NaiveTimeErr == [ok |-> FALSE, hour |-> 0, minute |-> 0, second |-> 0]

ParseNaiveTime(s) ==
    LET h == ScanNumber(s, 1, 2) IN
    IF ~h.ok \/ h.rest = <<>> \/ Head(h.rest) # ":" THEN NaiveTimeErr
    ELSE LET m == ScanNumber(Tail(h.rest), 1, 2) IN
         IF ~m.ok \/ m.rest # <<>> THEN NaiveTimeErr
         ELSE IF h.val > 23 \/ m.val > 59 THEN NaiveTimeErr
         ELSE [ok |-> TRUE, hour |-> h.val, minute |-> m.val, second |-> 0]

\* seconds since midnight: the order of NaiveTime
SecsOfDay(t) == (t.hour * 60 + t.minute) * 60 + t.second

NaiveTimeLess(a, b) == SecsOfDay(a) < SecsOfDay(b)

(***************************************************************************)
(* DateTime::parse_from_rfc3339(s)                                         *)
(***************************************************************************)
IsLeap(y) == (y % 4 = 0 /\ y % 100 # 0) \/ y % 400 = 0

DaysInMonth(y, m) ==
    IF m \in {4, 6, 9, 11} THEN 30
    ELSE IF m = 2 THEN (IF IsLeap(y) THEN 29 ELSE 28)
    ELSE 31

DateTimeErr == [ok |-> FALSE, year |-> 0, month |-> 0, day |-> 0,
                hour |-> 0, minute |-> 0, second |-> 0, offset |-> 0]

\* "+hh:mm" / "-hh:mm" / "Z", as seconds east of UTC
ParseOffset(s) ==
    IF Len(s) = 1 /\ s[1] \in {"Z", "z"} THEN [ok |-> TRUE, secs |-> 0]
    ELSE IF /\ Len(s) = 6
            /\ s[1] \in {"+", "-"}
            /\ AllDigits(SubSeq(s, 2, 3))
            /\ s[4] = ":"
            /\ AllDigits(SubSeq(s, 5, 6))
            /\ NumVal(SubSeq(s, 2, 3)) <= 23
            /\ NumVal(SubSeq(s, 5, 6)) <= 59
         THEN [ok |-> TRUE,
               secs |-> (IF s[1] = "+" THEN 1 ELSE -1) *
                        (NumVal(SubSeq(s, 2, 3)) * 3600 + NumVal(SubSeq(s, 5, 6)) * 60)]
         ELSE [ok |-> FALSE, secs |-> 0]

\* YYYY-MM-DDTHH:MM:SS<offset>, every field of fixed width.  Fractional
\* seconds and the leap second :60 are outside the inputs of this model.
ParseRfc3339(s) ==
    IF /\ Len(s) >= 20
       /\ AllDigits(SubSeq(s, 1, 4))   /\ s[5] = "-"
       /\ AllDigits(SubSeq(s, 6, 7))   /\ s[8] = "-"
       /\ AllDigits(SubSeq(s, 9, 10))  /\ s[11] \in {"T", "t"}
       /\ AllDigits(SubSeq(s, 12, 13)) /\ s[14] = ":"
       /\ AllDigits(SubSeq(s, 15, 16)) /\ s[17] = ":"
       /\ AllDigits(SubSeq(s, 18, 19))
       /\ ParseOffset(SubSeq(s, 20, Len(s))).ok
    THEN LET y  == NumVal(SubSeq(s, 1, 4))
             mo == NumVal(SubSeq(s, 6, 7))
             d  == NumVal(SubSeq(s, 9, 10))
             h  == NumVal(SubSeq(s, 12, 13))
             mi == NumVal(SubSeq(s, 15, 16))
             se == NumVal(SubSeq(s, 18, 19))
         IN IF /\ mo \in 1..12
               /\ d >= 1 /\ d <= DaysInMonth(y, mo)
               /\ h <= 23 /\ mi <= 59 /\ se <= 59
            THEN [ok |-> TRUE, year |-> y, month |-> mo, day |-> d,
                  hour |-> h, minute |-> mi, second |-> se,
                  offset |-> ParseOffset(SubSeq(s, 20, Len(s))).secs]
            ELSE DateTimeErr
    ELSE DateTimeErr

\* the DateTime<FixedOffset> held in a parsed record (the parse result
\* without its ok flag)
DateTimeOf(p) == [year |-> p.year, month |-> p.month, day |-> p.day,
                  hour |-> p.hour, minute |-> p.minute, second |-> p.second,
                  offset |-> p.offset]

\* days since 1970-01-01 of a civil date (proleptic Gregorian)
DaysFromCivil(y, m, d) ==
    LET yy  == IF m <= 2 THEN y - 1 ELSE y
        era == yy \div 400
        yoe == yy - era * 400
        mp  == (m + 9) % 12
        doy == (153 * mp + 2) \div 5 + d - 1
        doe == yoe * 365 + yoe \div 4 - yoe \div 100 + doy
    IN era * 146097 + doe - 719468

\* the instant of a DateTime, in seconds since the Unix epoch (UTC)
Timestamp(dt) ==
    DaysFromCivil(dt.year, dt.month, dt.day) * 86400
      + (dt.hour * 60 + dt.minute) * 60 + dt.second - dt.offset

\* finsh - start as chrono computes it: a signed number of seconds
DurationSecs(start, finsh) == Timestamp(finsh) - Timestamp(start)

\* the local calendar date and local time of day of a DateTime
DateOf(dt) == <<dt.year, dt.month, dt.day>>

TimeOf(dt) == [hour |-> dt.hour, minute |-> dt.minute, second |-> dt.second]

(***************************************************************************)
(* Option / panic values.                                                  *)
(***************************************************************************)
None == [tag |-> "None"]

Ok(v) == [tag |-> "Ok", value |-> v]

\* a panic: the call that panicked (the unwrap of a NaiveTime parse or the
\* expect of an RFC 3339 parse), the field whose parse failed, and the
\* panic message
Panic(call, field, message) ==
    [tag |-> "Panic", call |-> call, field |-> field, message |-> message]

(***************************************************************************)
(* String literals of the source.                                          *)
(***************************************************************************)
\* "+02:00"
OffsetSuffix == <<"+", "0", "2", ":", "0", "0">>

\* ":00+02:00"
SecondsAndOffsetSuffix == <<":", "0", "0">> \o OffsetSuffix

\* "1970-01-"
ReferenceMonthPrefix == <<"1", "9", "7", "0", "-", "0", "1", "-">>

\* the text of the expect messages: "Failed to parse <what> time
\* 1970-01-01T<shown>:00+02:00 as RFC3339, <raw:?>"
FailedToParse(what, shown, raw) ==
    [what |-> what,
     text |-> ReferenceMonthPrefix \o <<"0", "1", "T">> \o shown \o SecondsAndOffsetSuffix,
     raw |-> raw]

(***************************************************************************)
(* Faulty variants of From<RawShedding>, for the sensitivity of C6, C7, C8. *)
(***************************************************************************)
\* a finish that does not parse is replaced by the start (unwrap_or)
FromRawSheddingLenient(raw) ==
    LET start == ParseRfc3339(raw.start \o OffsetSuffix) IN
    IF ~start.ok
    THEN Panic("expect", "start", FailedToParse("start", raw.start, raw))
    ELSE LET finsh == ParseRfc3339(raw.finsh \o OffsetSuffix) IN
         Ok([start |-> DateTimeOf(start),
             finsh |-> IF finsh.ok THEN DateTimeOf(finsh) ELSE DateTimeOf(start),
             stage |-> raw.stage,
             source |-> raw.source])

\* the finish is parsed before the start
FromRawSheddingFinshFirst(raw) ==
    LET finsh == ParseRfc3339(raw.finsh \o OffsetSuffix) IN
    IF ~finsh.ok
    THEN Panic("expect", "finsh", FailedToParse("finsh", raw.finsh, raw))
    ELSE LET start == ParseRfc3339(raw.start \o OffsetSuffix) IN
         IF ~start.ok
         THEN Panic("expect", "start", FailedToParse("start", raw.start, raw))
         ELSE Ok([start |-> DateTimeOf(start),
                  finsh |-> DateTimeOf(finsh),
                  stage |-> raw.stage,
                  source |-> raw.source])

\* an assert!(start < finsh) after the two parses
FromRawSheddingOrdered(raw) ==
    LET start == ParseRfc3339(raw.start \o OffsetSuffix) IN
    IF ~start.ok
    THEN Panic("expect", "start", FailedToParse("start", raw.start, raw))
    ELSE LET finsh == ParseRfc3339(raw.finsh \o OffsetSuffix) IN
         IF ~finsh.ok
         THEN Panic("expect", "finsh", FailedToParse("finsh", raw.finsh, raw))
         ELSE IF Timestamp(DateTimeOf(finsh)) <= Timestamp(DateTimeOf(start))
         THEN Panic("assert", "finsh", FailedToParse("finsh", raw.finsh, raw))
         ELSE Ok([start |-> DateTimeOf(start),
                  finsh |-> DateTimeOf(finsh),
                  stage |-> raw.stage,
                  source |-> raw.source])

(***************************************************************************)
(* impl From<RawShedding> for Shedding                                     *)
(***************************************************************************)
FromRawShedding(raw) ==
    LET start == ParseRfc3339(raw.start \o OffsetSuffix) IN
    IF ~start.ok
    THEN Panic("expect", "start", FailedToParse("start", raw.start, raw))
    ELSE LET finsh == ParseRfc3339(raw.finsh \o OffsetSuffix) IN
         IF ~finsh.ok
         THEN Panic("expect", "finsh", FailedToParse("finsh", raw.finsh, raw))
         ELSE Ok([start |-> DateTimeOf(start),
                  finsh |-> DateTimeOf(finsh),
                  stage |-> raw.stage,
                  source |-> raw.source])

(***************************************************************************)
(* Faulty variant of From<RawMonthlyShedding>, for the sensitivity of C9:  *)
(* the timestamps are built from the parsed clock times, formatted         *)
(* "{:02}:{:02}", instead of from the raw strings.                         *)
(***************************************************************************)
FromRawMonthlySheddingReformatted(raw) ==
    LET start == ParseNaiveTime(raw.start_time) IN
    IF ~start.ok THEN Panic("unwrap", "start_time", "ParseError")
    ELSE
    LET finsh == ParseNaiveTime(raw.finsh_time) IN
    IF ~finsh.ok THEN Panic("unwrap", "finsh_time", "ParseError")
    ELSE
    LET goes_over_midnight == NaiveTimeLess(finsh, start)
        date == IF goes_over_midnight THEN <<"0", "1">> ELSE <<"0", "2">>
        start_time == ParseRfc3339(ReferenceMonthPrefix \o <<"0", "1", "T">>
                                     \o D2(start.hour) \o <<":">> \o D2(start.minute)
                                     \o SecondsAndOffsetSuffix)
        finsh_time == ParseRfc3339(ReferenceMonthPrefix \o date \o <<"T">>
                                     \o D2(finsh.hour) \o <<":">> \o D2(finsh.minute)
                                     \o SecondsAndOffsetSuffix)
    IN Ok([start_time |-> DateTimeOf(start_time),
           finsh_time |-> DateTimeOf(finsh_time),
           stage |-> raw.stage,
           date_of_month |-> raw.date_of_month,
           goes_over_midnight |-> goes_over_midnight])

(***************************************************************************)
(* impl From<RawMonthlyShedding> for MonthlyShedding                       *)
(***************************************************************************)
FromRawMonthlyShedding(raw) ==
    LET start == ParseNaiveTime(raw.start_time) IN
    IF ~start.ok THEN Panic("unwrap", "start_time", "ParseError")
    ELSE
    LET finsh == ParseNaiveTime(raw.finsh_time) IN
    IF ~finsh.ok THEN Panic("unwrap", "finsh_time", "ParseError")
    ELSE
    LET goes_over_midnight == NaiveTimeLess(finsh, start)
        date == IF goes_over_midnight THEN <<"0", "1">> ELSE <<"0", "2">>
        start_time == ParseRfc3339(ReferenceMonthPrefix \o <<"0", "1", "T">>
                                     \o raw.start_time \o SecondsAndOffsetSuffix)
    IN
    IF ~start_time.ok
    THEN Panic("expect", "start_time", FailedToParse("start", raw.start_time, raw))
    ELSE
    LET finsh_time == ParseRfc3339(ReferenceMonthPrefix \o date \o <<"T">>
                                     \o raw.finsh_time \o SecondsAndOffsetSuffix)
    IN
    IF ~finsh_time.ok
    THEN Panic("expect", "finsh_time", FailedToParse("start", raw.finsh_time, raw))
    ELSE Ok([start_time |-> DateTimeOf(start_time),
             finsh_time |-> DateTimeOf(finsh_time),
             stage |-> raw.stage,
             date_of_month |-> raw.date_of_month,
             goes_over_midnight |-> goes_over_midnight])

(***************************************************************************)
(* Inputs.                                                                 *)
(***************************************************************************)
Stages == 1..MaxStage

DatesOfMonth == 1..MaxDateOfMonth

\* "HH:MM", zero padded
HourMinute(h, m) == D2(h) \o <<":">> \o D2(m)

Hours == 0..23

Minutes == {0, 30}

WellFormedTimes == {HourMinute(h, m) : h \in Hours, m \in Minutes}

\* strings a deserializer can equally deliver in a time field:
\* "9:30", "12:5", "24:00", "12:60", "1230", "", "ab:cd", "12:30:00"
OtherTimes ==
    { D1(9) \o <<":">> \o D2(30),
      D2(12) \o <<":">> \o D1(5),
      HourMinute(24, 0),
      HourMinute(12, 60),
      D2(12) \o D2(30),
      <<>>,
      <<"a", "b", ":", "c", "d">>,
      HourMinute(12, 30) \o <<":">> \o D2(0) }

TimeStrings == WellFormedTimes \cup OtherTimes

RawMonthlySheddings ==
    [start_time : TimeStrings, finsh_time : TimeStrings,
     stage : Stages, date_of_month : DatesOfMonth]

\* "YYYY-MM-DDTHH:MM:SS", no offset
LocalDateTime(y, mo, d, h, mi, s) ==
    D2(y \div 100) \o D2(y % 100) \o <<"-">> \o D2(mo) \o <<"-">> \o D2(d)
      \o <<"T">> \o D2(h) \o <<":">> \o D2(mi) \o <<":">> \o D2(s)

\* "2024-06-01T18:00:00" and "2024-06-01T20:30:00"
Evening == LocalDateTime(2024, 6, 1, 18, 0, 0)

Night == LocalDateTime(2024, 6, 1, 20, 30, 0)

\* "not-a-time", and a date-time without its seconds: "2024-06-01T18:00"
NotATime == <<"n", "o", "t", "-", "a", "-", "t", "i", "m", "e">>

NoSeconds == SubSeq(Evening, 1, 16)

\* the raw records a schedule is made of: finishing after, before and at the
\* start, and malformed in the start, in the finish and in both
RawSheddings ==
    { [start |-> Evening,   finsh |-> Night,     stage |-> 1, source |-> "eskom"],
      [start |-> Night,     finsh |-> Evening,   stage |-> 2, source |-> "eskom"],
      [start |-> Evening,   finsh |-> Evening,   stage |-> 3, source |-> "coct"],
      [start |-> NotATime,  finsh |-> Night,     stage |-> 4, source |-> "eskom"],
      [start |-> Evening,   finsh |-> NoSeconds, stage |-> 2, source |-> "coct"],
      [start |-> NoSeconds, finsh |-> NotATime,  stage |-> 1, source |-> "eskom"] }

RECURSIVE SeqsUpTo(_, _)
SeqsUpTo(S, n) ==
    IF n = 0 THEN {<<>>}
    ELSE LET shorter == SeqsUpTo(S, n - 1)
         IN shorter \cup {Append(q, x) : q \in {t \in shorter : Len(t) = n - 1}, x \in S}

RawManuallyInputSchedules ==
    [changes : SeqsUpTo(RawSheddings, MaxChanges),
     historical_changes : SeqsUpTo(RawSheddings, MaxHistorical)]

(***************************************************************************)
(* State.                                                                  *)
(***************************************************************************)
VARIABLES
    rawMonthly,      \* the RawMonthlyShedding handed to from(), or None
    monthly,         \* what from() gave: None (not called), Ok(MonthlyShedding), Panic
    rawSchedule,     \* the RawManuallyInputSchedule handed to from(), or None
    pc,              \* position inside From<RawManuallyInputSchedule>::from
    changes,         \* the Vec<Shedding> collected so far from raw.changes
    historical_changes, \* the Vec<Shedding> collected so far from raw.historical_changes
    schedule         \* what from() gave: None (nothing yet), Ok(ManuallyInputSchedule), Panic

vars == <<rawMonthly, monthly, rawSchedule, pc, changes, historical_changes, schedule>>

scheduleVars == <<rawSchedule, pc, changes, historical_changes, schedule>>

monthlyVars == <<rawMonthly, monthly>>

(***************************************************************************)
(* Conversion of one monthly record.                                       *)
(***************************************************************************)
InitMonthly ==
    /\ rawMonthly \in RawMonthlySheddings
    /\ monthly = None
    /\ rawSchedule = None
    /\ pc = "idle"
    /\ changes = <<>>
    /\ historical_changes = <<>>
    /\ schedule = None

ConvertMonthly ==
    /\ rawMonthly # None
    /\ monthly = None
    /\ monthly' = FromRawMonthlyShedding(rawMonthly)
    /\ UNCHANGED <<rawMonthly, scheduleVars>>

NextMonthly == ConvertMonthly

SpecMonthly == InitMonthly /\ [][NextMonthly]_vars

(***************************************************************************)
(* impl From<RawManuallyInputSchedule> for ManuallyInputSchedule: the two  *)
(* into_iter().map(|r| r.into()).collect() chains, in field order, one     *)
(* element per step; a panic of the closure unwinds out of from().         *)
(***************************************************************************)
InitSchedule ==
    /\ rawSchedule \in RawManuallyInputSchedules
    /\ pc = "changes"
    /\ changes = <<>>
    /\ historical_changes = <<>>
    /\ schedule = None
    /\ rawMonthly = None
    /\ monthly = None

\* faulty variant of MapChanges, for the sensitivity of C5: the converted
\* element is put in front of the ones collected so far
MapChangesPrepending ==
    /\ pc = "changes"
    /\ Len(changes) < Len(rawSchedule.changes)
    /\ LET r == FromRawShedding(rawSchedule.changes[Len(changes) + 1]) IN
       IF r.tag = "Ok"
       THEN /\ changes' = <<r.value>> \o changes
            /\ UNCHANGED <<pc, schedule>>
       ELSE /\ pc' = "panicked"
            /\ schedule' = r
            /\ UNCHANGED changes
    /\ UNCHANGED <<rawSchedule, historical_changes, monthlyVars>>

\* the closure |r| r.into() on the next element of raw.changes
MapChanges ==
    /\ pc = "changes"
    /\ Len(changes) < Len(rawSchedule.changes)
    /\ LET r == FromRawShedding(rawSchedule.changes[Len(changes) + 1]) IN
       IF r.tag = "Ok"
       THEN /\ changes' = Append(changes, r.value)
            /\ UNCHANGED <<pc, schedule>>
       ELSE /\ pc' = "panicked"
            /\ schedule' = r
            /\ UNCHANGED changes
    /\ UNCHANGED <<rawSchedule, historical_changes, monthlyVars>>

\* raw.changes is exhausted: collect() gives the first field
CollectChanges ==
    /\ pc = "changes"
    /\ Len(changes) = Len(rawSchedule.changes)
    /\ pc' = "historical_changes"
    /\ UNCHANGED <<rawSchedule, changes, historical_changes, schedule, monthlyVars>>

\* the closure |r| r.into() on the next element of raw.historical_changes
MapHistorical ==
    /\ pc = "historical_changes"
    /\ Len(historical_changes) < Len(rawSchedule.historical_changes)
    /\ LET r == FromRawShedding(
                    rawSchedule.historical_changes[Len(historical_changes) + 1]) IN
       IF r.tag = "Ok"
       THEN /\ historical_changes' = Append(historical_changes, r.value)
            /\ UNCHANGED <<pc, schedule>>
       ELSE /\ pc' = "panicked"
            /\ schedule' = r
            /\ UNCHANGED historical_changes
    /\ UNCHANGED <<rawSchedule, changes, monthlyVars>>

\* raw.historical_changes is exhausted: collect() gives the second field and
\* the struct is returned
CollectHistorical ==
    /\ pc = "historical_changes"
    /\ Len(historical_changes) = Len(rawSchedule.historical_changes)
    /\ pc' = "returned"
    /\ schedule' = Ok([changes |-> changes, historical_changes |-> historical_changes])
    /\ UNCHANGED <<rawSchedule, changes, historical_changes, monthlyVars>>

NextSchedule ==
    \/ MapChanges
    \/ CollectChanges
    \/ MapHistorical
    \/ CollectHistorical

SpecSchedule == InitSchedule /\ [][NextSchedule]_vars

(***************************************************************************)
(* Vocabulary of the properties of the monthly conversion.  Validity of a  *)
(* time string is the 24-hour "HH:MM" grammar itself, not a parser of the  *)
(* program.                                                                *)
(***************************************************************************)
ValidHHMM(s) ==
    /\ Len(s) = 5
    /\ s[1] \in Digits /\ s[2] \in Digits /\ s[3] = ":"
    /\ s[4] \in Digits /\ s[5] \in Digits
    /\ 10 * DigitVal(s[1]) + DigitVal(s[2]) <= 23
    /\ 10 * DigitVal(s[4]) + DigitVal(s[5]) <= 59

\* minutes since midnight of a valid "HH:MM"
ClockMinutes(s) ==
    (10 * DigitVal(s[1]) + DigitVal(s[2])) * 60 + 10 * DigitVal(s[4]) + DigitVal(s[5])

BothValid == ValidHHMM(rawMonthly.start_time) /\ ValidHHMM(rawMonthly.finsh_time)

MonthlyCalled == rawMonthly # None /\ monthly # None

ReferenceDay1 == <<1970, 1, 1>>

ReferenceDay2 == <<1970, 1, 2>>

\* C1: a monthly record whose valid start time is later than its valid finish
\* time converts to goes_over_midnight = true, start on 1970-01-01 and finish
\* on 1970-01-02.
C1_CrossingFinishesOnDay2 ==
    (MonthlyCalled /\ BothValid
       /\ ClockMinutes(rawMonthly.start_time) > ClockMinutes(rawMonthly.finsh_time))
    => /\ monthly.tag = "Ok"
       /\ monthly.value.goes_over_midnight = TRUE
       /\ DateOf(monthly.value.start_time) = ReferenceDay1
       /\ DateOf(monthly.value.finsh_time) = ReferenceDay2

\* C2: a monthly record whose valid start time is earlier than its valid
\* finish time converts to goes_over_midnight = false with start and finish
\* both on 1970-01-01.
C2_SameDayFinishesOnDay1 ==
    (MonthlyCalled /\ BothValid
       /\ ClockMinutes(rawMonthly.start_time) < ClockMinutes(rawMonthly.finsh_time))
    => /\ monthly.tag = "Ok"
       /\ monthly.value.goes_over_midnight = FALSE
       /\ DateOf(monthly.value.start_time) = ReferenceDay1
       /\ DateOf(monthly.value.finsh_time) = ReferenceDay1

\* C3: a monthly record whose start and finish are the same valid time
\* converts to goes_over_midnight = false and a duration of exactly zero.
C3_EqualTimesZeroDuration ==
    (MonthlyCalled /\ BothValid /\ rawMonthly.start_time = rawMonthly.finsh_time)
    => /\ monthly.tag = "Ok"
       /\ monthly.value.goes_over_midnight = FALSE
       /\ DurationSecs(monthly.value.start_time, monthly.value.finsh_time) = 0

\* C4: whenever the monthly conversion succeeds, finsh_time - start_time is
\* non-negative and less than 24 hours.
C4_DurationWithinOneDay ==
    (MonthlyCalled /\ monthly.tag = "Ok")
    => /\ DurationSecs(monthly.value.start_time, monthly.value.finsh_time) >= 0
       /\ DurationSecs(monthly.value.start_time, monthly.value.finsh_time) < 86400

\* C9: when start_time or finish_time is not a valid 24-hour HH:MM value the
\* monthly conversion fails (it panics) and gives no MonthlyShedding: nothing
\* is defaulted or coerced into a time.
C9_InvalidTimeNeverConverts ==
    (MonthlyCalled /\ ~BothValid) => monthly.tag = "Panic"

\* the case of C9 happened: a string that the clock parse reads as a time
\* ("9:30") was refused, and so was one that no parse reads ("ab:cd")
C9_Witness ==
    /\ MonthlyCalled
    /\ ~ValidHHMM(rawMonthly.start_time)
    /\ ParseNaiveTime(rawMonthly.start_time).ok
    /\ ValidHHMM(rawMonthly.finsh_time)
    /\ monthly.tag = "Panic"

\* C10: whenever the clock parse ("%H:%M") accepts both raw strings, the
\* RFC 3339 parse of the strings built from them succeeds too, and each
\* anchored timestamp has the time of day that was compared.
C10_ParsingStagesAgree ==
    (MonthlyCalled /\ ParseNaiveTime(rawMonthly.start_time).ok
                   /\ ParseNaiveTime(rawMonthly.finsh_time).ok)
    => /\ monthly.tag = "Ok"
       /\ SecsOfDay(TimeOf(monthly.value.start_time))
            = SecsOfDay(ParseNaiveTime(rawMonthly.start_time))
       /\ SecsOfDay(TimeOf(monthly.value.finsh_time))
            = SecsOfDay(ParseNaiveTime(rawMonthly.finsh_time))

(***************************************************************************)
(* Vocabulary of the properties of the schedule conversion.                *)
(***************************************************************************)
\* the raw string, with "+02:00" appended, is an RFC 3339 timestamp
WellFormedStamp(str) == ParseRfc3339(str \o OffsetSuffix).ok

Malformed(raw) == ~WellFormedStamp(raw.start) \/ ~WellFormedStamp(raw.finsh)

MalformedAt(rawSeq) == {i \in 1..Len(rawSeq) : Malformed(rawSeq[i])}

\* index of the first malformed record of a raw vector, 0 when there is none
FirstMalformed(rawSeq) ==
    LET bad == MalformedAt(rawSeq)
    IN IF bad = {} THEN 0 ELSE CHOOSE i \in bad : \A j \in bad : i <= j

HasMalformed ==
    MalformedAt(rawSchedule.changes) # {} \/ MalformedAt(rawSchedule.historical_changes) # {}

\* out is, element by element and in order, the conversion of rawSeq
ConvertedInOrder(rawSeq, out) ==
    /\ Len(out) = Len(rawSeq)
    /\ \A i \in 1..Len(rawSeq) : Ok(out[i]) = FromRawShedding(rawSeq[i])

UtcPlus2 == 2 * 3600

\* C5: when every raw record is well formed the conversion does not fail, and
\* the returned schedule's changes and historical_changes are, index by
\* index and in the raw order, the conversions of the raw changes and of the
\* raw historical_changes.
C5_OneToOneInOrder ==
    /\ ~HasMalformed => pc # "panicked"
    /\ pc = "returned" =>
          /\ schedule.tag = "Ok"
          /\ ConvertedInOrder(rawSchedule.changes, schedule.value.changes)
          /\ ConvertedInOrder(rawSchedule.historical_changes,
                              schedule.value.historical_changes)

\* a schedule was returned for two different changes and one historical change
C5_Witness ==
    /\ pc = "returned"
    /\ Len(schedule.value.changes) = 2
    /\ schedule.value.changes[1] # schedule.value.changes[2]
    /\ Len(schedule.value.historical_changes) = 1
    /\ schedule.value.historical_changes[1] # schedule.value.changes[1]

\* C6: when any record of changes or historical_changes has a malformed start
\* or finish, no schedule is ever returned, not even one of the records
\* converted so far, and a conversion that has stopped has stopped in the
\* panic of an RFC 3339 expect.
C6_MalformedNeverReturns ==
    HasMalformed =>
        /\ schedule.tag # "Ok"
        /\ pc # "returned"
        /\ ~(pc = "historical_changes"
               /\ Len(historical_changes) = Len(rawSchedule.historical_changes))
        /\ pc = "panicked" => (schedule.tag = "Panic" /\ schedule.call = "expect")

\* the conversion panicked on a historical record after every change had
\* been converted
C6_Witness ==
    /\ pc = "panicked"
    /\ schedule.tag = "Panic"
    /\ Len(changes) = 2
    /\ MalformedAt(rawSchedule.changes) = {}
    /\ MalformedAt(rawSchedule.historical_changes) # {}

\* C7: records are converted in order, changes before historical_changes;
\* nothing at or after the first malformed record is converted, and the
\* panic is the one of that record, for its start when the start is
\* malformed and for its finish otherwise.
C7_FirstMalformedSurfaces ==
    LET kc == FirstMalformed(rawSchedule.changes)
        kh == FirstMalformed(rawSchedule.historical_changes)
    IN /\ kc > 0 => (Len(changes) < kc /\ historical_changes = <<>>)
       /\ kh > 0 => Len(historical_changes) < kh
       /\ pc = "panicked" =>
             /\ kc > 0 \/ kh > 0
             /\ LET bad == IF kc > 0 THEN rawSchedule.changes[kc]
                           ELSE rawSchedule.historical_changes[kh]
                IN /\ kc > 0 => Len(changes) = kc - 1
                   /\ kc = 0 => /\ Len(changes) = Len(rawSchedule.changes)
                                /\ Len(historical_changes) = kh - 1
                   /\ schedule.tag = "Panic"
                   /\ schedule.message.raw = bad
                   /\ schedule.field = (IF ~WellFormedStamp(bad.start)
                                        THEN "start" ELSE "finsh")
                   /\ schedule.message.what = schedule.field

\* the panic came from the second change, malformed in start and finish,
\* while a later change and a historical change were malformed too
C7_Witness ==
    /\ pc = "panicked"
    /\ Len(changes) = 1
    /\ MalformedAt(rawSchedule.changes) = {2}
    /\ MalformedAt(rawSchedule.historical_changes) = {1}
    /\ ~WellFormedStamp(rawSchedule.changes[2].start)
    /\ ~WellFormedStamp(rawSchedule.changes[2].finsh)
    /\ rawSchedule.historical_changes[1] # rawSchedule.changes[2]
    /\ schedule.field = "start"

\* the conversions so far carry stage and source of their raw records and
\* both timestamps at UTC+2
CarriedOver(rawSeq, out) ==
    \A i \in 1..Len(out) :
        /\ out[i].stage = rawSeq[i].stage
        /\ out[i].source = rawSeq[i].source
        /\ out[i].start.offset = UtcPlus2
        /\ out[i].finsh.offset = UtcPlus2

\* the raw record whose conversion is next (or, after a panic, was last)
Current ==
    IF Len(changes) < Len(rawSchedule.changes)
    THEN rawSchedule.changes[Len(changes) + 1]
    ELSE rawSchedule.historical_changes[Len(historical_changes) + 1]

\* C8: a record whose start and finish are each well formed is converted
\* whatever their order (only a malformed record makes the conversion
\* panic), and every converted record has the raw stage and source and both
\* timestamps at offset UTC+2.
C8_OrderNotEnforced ==
    /\ pc = "panicked" => Malformed(Current)
    /\ CarriedOver(rawSchedule.changes, changes)
    /\ CarriedOver(rawSchedule.historical_changes, historical_changes)

\* converted: one record that finishes before it starts, one that finishes
\* when it starts, with different stages
C8_Witness ==
    /\ Len(changes) = 2
    /\ Timestamp(changes[1].finsh) < Timestamp(changes[1].start)
    /\ Timestamp(changes[2].finsh) = Timestamp(changes[2].start)
    /\ changes[1].stage # changes[2].stage

====
